---- MODULE Spec2Model ----
(***************************************************************************)
(* Model of the Sxodim backend (src/backend/main.py): three SQLite tables  *)
(* (users, events, calendar) behind eight FastAPI handlers, each of which  *)
(* runs with a session of its own obtained from get_db.                    *)
(*                                                                         *)
(* Every handler is cut at the points where it talks to the database:      *)
(*   query   - the SELECTs it runs before deciding (and its 4xx raise),    *)
(*   commit  - db.add / setattr / db.delete followed by db.commit(),       *)
(*   return  - db.refresh (or the lazy reload of an expired row) and the   *)
(*             conversion of the returned value by response_model.         *)
(* Spec runs each request as one step (requests processed one at a time).  *)
(* ConcSpec runs the same three phases as separate steps of the worker     *)
(* threads (FastAPI runs "def" handlers in a thread pool), with the        *)
(* session opened before the first and closed after the last.              *)
(***************************************************************************)
EXTENDS Integers, Sequences, FiniteSets, TLC

VARIABLES
    users,      \* rows of table "users":    [id, login, password]
    events,     \* rows of table "events":   [id, name, date, time, place, description, image_url]
    calendar,   \* rows of table "calendar": [id, user_id, event_id]
    resp,       \* Spec: the last request served, with the tables it found and its response
    req,        \* ConcSpec: per worker thread, the request it is serving
    sessions,   \* ConcSpec: the sessions that are open, [sid, owner]
    started     \* how many requests have been started

vars == <<users, events, calendar, resp, req, sessions, started>>

(***************************** bounds and inputs ***************************)

\* Number of requests Spec serves, one after the other.
MaxServed == 6
\* Number of requests ConcSpec lets the worker threads start.
MaxRequests == 3
\* The worker threads that serve requests at the same time in ConcSpec.
Workers == {"w1", "w2"}

\* The null of an Optional[int] field (Event.id when the body gives null).
NullId == -1

Logins == {"alice", "bob"}
Passwords == {"pw1", "pw2"}
\* One more than can ever be stored: an id that never refers to a row.
UserIdInputs == 1 .. (Cardinality(Logins) + 1)
EventIdInputs == {1, 2, 3}
BodyIds == {NullId, 0, 1}

FieldNames == {"name", "date", "time", "place", "description", "image_url"}
Concert ==
    [name |-> "Concert", date |-> "2024-05-01", time |-> "19:00",
     place |-> "Hall", description |-> "live", image_url |-> "c.png"]
Lecture ==
    [name |-> "Lecture", date |-> "2024-06-02", time |-> "10:30",
     place |-> "Campus", description |-> "talk", image_url |-> "l.png"]
FieldInputs == {Concert, Lecture}

(******************************* Python values *****************************)

\* Python's None: what Query.first() gives when no row matches.
None == [none |-> TRUE]

Max(S) == CHOOSE m \in S : \A n \in S : n <= m

\* The tables as one value.
DB == [users |-> users, events |-> events, calendar |-> calendar]

(******************************* storage engine ****************************)

\* Mutant of NextId: the id taken from the number of rows.
NextId_row_count(rows) == Cardinality(rows) + 1

\* Column(Integer, primary_key=True) on SQLite is the rowid: a row inserted
\* without an id gets the largest id in the table plus one (1 when empty).
NextId(rows) == IF rows = {} THEN 1 ELSE Max({r.id : r \in rows}) + 1

\* Query.first(): the first matching row in rowid order, or None.
First(rows) ==
    IF rows = {} THEN None
    ELSE CHOOSE r \in rows : \A q \in rows : r.id <= q.id

\* Query.all(): the matching rows in rowid order.
RECURSIVE All(_)
All(rows) ==
    IF rows = {} THEN <<>>
    ELSE LET r == First(rows) IN <<r>> \o All(rows \ {r})

\* Column(String, unique=True): the INSERT of a second row with a login
\* that is stored fails (IntegrityError).
UniqueViolation(login, U) == \E u \in U : u.login = login

(****************************** domain schemas *****************************)

\* class Event: the request body of create_event and update_event.
EventInputs ==
    {[k \in FieldNames \cup {"id"} |-> IF k = "id" THEN i ELSE f[k]] :
        i \in BodyIds, f \in FieldInputs}

\* class RegisterRequest / LoginRequest.
RegisterRequests == [login : Logins, password : Passwords]

\* class CalendarItem.
CalendarItems == [user_id : UserIdInputs, event_id : EventIdInputs]

\* Mutant of ExcludeId: event.dict() with the id left in.
ExcludeId_keeps_id(event) == event

\* event.dict(exclude={"id"})
ExcludeId(event) == [k \in (DOMAIN event) \ {"id"} |-> event[k]]

\* response_model=User: id and login of the row, the password left out.
UserOut(user) == [id |-> user.id, login |-> user.login]

\* response_model=Event: a row converts field by field; None is no Event.
IsEvent(row) == row # None

(***************************** handler outcomes ****************************)

\* A phase ends the request with a response (status # 0) or hands on
\* (status = 0) what the next phase needs.
Proceed(found, db) == [status |-> 0, body |-> None, found |-> found, db |-> db]
Reply(status, body, db) == [status |-> status, body |-> body, found |-> None, db |-> db]
\* raise HTTPException(status_code, detail)
Raise(status, detail, db) == Reply(status, [detail |-> detail], db)
\* An exception no handler catches: FastAPI answers 500; nothing is committed.
Fault(db) == Reply(500, [detail |-> "Internal Server Error"], db)

(********************************* register ********************************)

\* Mutant of register_query: the lookup also filters on the password.
register_query_same_password(data, db) ==
    LET existing == First({u \in db.users :
                              u.login = data.login /\ u.password = data.password})
    IN IF existing # None
       THEN [status |-> 400, body |-> [detail |-> "User already exists"],
             found |-> None, db |-> db]
       ELSE [status |-> 0, body |-> None, found |-> None, db |-> db]

\* db.query(UserDB).filter(UserDB.login == data.login).first(), and the 400.
register_query(data, db) ==
    LET existing == First({u \in db.users : u.login = data.login})
    IN IF existing # None
       THEN Raise(400, "User already exists", db)
       ELSE Proceed(None, db)

\* user = UserDB(login, password); db.add(user); db.commit()
register_commit(data, db) ==
    LET user == [id |-> NextId(db.users), login |-> data.login,
                 password |-> data.password]
    IN IF UniqueViolation(data.login, db.users)
       THEN Fault(db)
       ELSE Proceed(user, [db EXCEPT !.users = @ \cup {user}])

\* db.refresh(user); return user
register_return(user, db) ==
    LET row == First({u \in db.users : u.id = user.id})
    IN IF row = None THEN Fault(db) ELSE Reply(200, UserOut(row), db)

(********************************** login **********************************)

\* Mutant of login_query: the password is not compared.
login_query_any_password(data, db) ==
    LET user == First({u \in db.users : u.login = data.login})
    IN IF user = None
       THEN [status |-> 401, body |-> [detail |-> "Invalid login or password"],
             found |-> None, db |-> db]
       ELSE [status |-> 200, body |-> [id |-> user.id, login |-> user.login],
             found |-> None, db |-> db]

\* filter(UserDB.login == data.login, UserDB.password == data.password).first()
login_query(data, db) ==
    LET user == First({u \in db.users :
                          u.login = data.login /\ u.password = data.password})
    IN IF user = None
       THEN Raise(401, "Invalid login or password", db)
       ELSE Reply(200, UserOut(user), db)

(******************************* events CRUD *******************************)

\* response_model=List[Event]: every element must convert to an Event, or
\* the response fails validation and the client gets a server fault.
ResponseModelList(rows, db) ==
    IF \A i \in DOMAIN rows : IsEvent(rows[i])
    THEN Reply(200, [items |-> rows], db)
    ELSE Fault(db)

get_events_query(db) == ResponseModelList(All(db.events), db)

\* EventDB(**fields) inserted: the row gets the id the table generates.
EventDB(fields, id) ==
    [k \in (DOMAIN fields) \cup {"id"} |-> IF k = "id" THEN id ELSE fields[k]]

\* new_event = EventDB(**event.dict(exclude={"id"})); db.add; db.commit()
create_event_commit(event, db) ==
    LET new_event == EventDB(ExcludeId(event), NextId(db.events))
    IN Proceed(new_event, [db EXCEPT !.events = @ \cup {new_event}])

\* db.refresh(new_event); return new_event  (also the reload of the expired
\* db_event that update_event returns): the row is read again by its id.
event_return(event, db) ==
    LET row == First({e \in db.events : e.id = event.id})
    IN IF row = None THEN Fault(db) ELSE Reply(200, row, db)

update_event_query(event_id, db) ==
    LET db_event == First({e \in db.events : e.id = event_id})
    IN IF db_event = None
       THEN Raise(404, "Event not found", db)
       ELSE Proceed(db_event, db)

\* for key, value in event.dict(exclude={"id"}).items(): setattr(db_event, key, value)
\* The attributes whose value differs from the loaded one are the ones the
\* UPDATE writes.
SetAttrs(db_event, fields) ==
    {k \in DOMAIN fields : fields[k] # db_event[k]}

\* db.commit() of update_event: UPDATE events SET <changed> WHERE id = db_event.id.
\* No changed attribute: no statement. No row of that id left: StaleDataError.
update_event_commit(event, db_event, db) ==
    LET fields  == ExcludeId(event)
        changed == SetAttrs(db_event, fields)
        stored  == First({e \in db.events : e.id = db_event.id})
        updated == [k \in DOMAIN stored |->
                       IF k \in changed THEN fields[k] ELSE stored[k]]
    IN IF changed = {} THEN Proceed(db_event, db)
       ELSE IF stored = None THEN Fault(db)
       ELSE Proceed(db_event,
                    [db EXCEPT !.events = (@ \ {stored}) \cup {updated}])

\* Mutant of delete_event_commit: the delete cascades to the calendar.
delete_event_commit_cascade(event, db) ==
    [status |-> 200, body |-> [message |-> "Event deleted"], found |-> None,
     db |-> [db EXCEPT !.events = {e \in @ : e.id # event.id},
                       !.calendar = {c \in @ : c.event_id # event.id}]]

delete_event_query(event_id, db) ==
    LET event == First({e \in db.events : e.id = event_id})
    IN IF event = None
       THEN Raise(404, "Event not found", db)
       ELSE Proceed(event, db)

\* db.delete(event); db.commit(); return {"message": "Event deleted"}
\* DELETE FROM events WHERE id = event.id; calendar rows are not touched
\* (no cascade, and SQLite does not enforce the foreign keys).
delete_event_commit(event, db) ==
    Reply(200, [message |-> "Event deleted"],
          [db EXCEPT !.events = {e \in @ : e.id # event.id}])

(********************************* calendar ********************************)

\* Mutant of add_to_calendar_query: 404 only when both are missing.
add_to_calendar_query_both_missing(data, db) ==
    LET user  == First({u \in db.users : u.id = data.user_id})
        event == First({e \in db.events : e.id = data.event_id})
    IN IF user = None /\ event = None
       THEN [status |-> 404, body |-> [detail |-> "User or Event not found"],
             found |-> None, db |-> db]
       ELSE [status |-> 0, body |-> None, found |-> None, db |-> db]

add_to_calendar_query(data, db) ==
    LET user  == First({u \in db.users : u.id = data.user_id})
        event == First({e \in db.events : e.id = data.event_id})
    IN IF user = None \/ event = None
       THEN Raise(404, "User or Event not found", db)
       ELSE Proceed(None, db)

\* item = CalendarDB(user_id, event_id); db.add(item); db.commit()
add_to_calendar_commit(data, db) ==
    LET item == [id |-> NextId(db.calendar), user_id |-> data.user_id,
                 event_id |-> data.event_id]
    IN Reply(200, [message |-> "Added to calendar"],
             [db EXCEPT !.calendar = @ \cup {item}])

get_calendar_query(user_id, db) ==
    LET items == All({c \in db.calendar : c.user_id = user_id})
        evs   == [i \in DOMAIN items |->
                     First({e \in db.events : e.id = items[i].event_id})]
    IN ResponseModelList(evs, db)

(***************************** the eight routes ****************************)

\* What a client can send: the route and its path and body parameters.
Requests ==
    {[op |-> "register", arg |-> d] : d \in RegisterRequests}
    \cup {[op |-> "login", arg |-> d] : d \in RegisterRequests}
    \cup {[op |-> "get_events", arg |-> None]}
    \cup {[op |-> "create_event", arg |-> [event |-> e]] : e \in EventInputs}
    \cup {[op |-> "update_event", arg |-> [event_id |-> i, event |-> e]] :
             i \in EventIdInputs, e \in EventInputs}
    \cup {[op |-> "delete_event", arg |-> [event_id |-> i]] : i \in EventIdInputs}
    \cup {[op |-> "add_to_calendar", arg |-> d] : d \in CalendarItems}
    \cup {[op |-> "get_calendar", arg |-> [user_id |-> u]] : u \in UserIdInputs}

\* The handler up to its first commit.
Query(op, arg, db) ==
    CASE op = "register"        -> register_query(arg, db)
      [] op = "login"           -> login_query(arg, db)
      [] op = "get_events"      -> get_events_query(db)
      [] op = "create_event"    -> Proceed(None, db)
      [] op = "update_event"    -> update_event_query(arg.event_id, db)
      [] op = "delete_event"    -> delete_event_query(arg.event_id, db)
      [] op = "add_to_calendar" -> add_to_calendar_query(arg, db)
      [] op = "get_calendar"    -> get_calendar_query(arg.user_id, db)

\* The handler's write and db.commit(), given what its query found.
Commit(op, arg, found, db) ==
    CASE op = "register"        -> register_commit(arg, db)
      [] op = "create_event"    -> create_event_commit(arg.event, db)
      [] op = "update_event"    -> update_event_commit(arg.event, found, db)
      [] op = "delete_event"    -> delete_event_commit(found, db)
      [] op = "add_to_calendar" -> add_to_calendar_commit(arg, db)

\* What the handler returns after the commit.
Return(op, found, db) ==
    CASE op = "register"     -> register_return(found, db)
      [] op = "create_event" -> event_return(found, db)
      [] op = "update_event" -> event_return(found, db)

\* A whole request, nothing else running: query, then commit, then return.
Handle(op, arg, db) ==
    LET q == Query(op, arg, db)
    IN IF q.status # 0 THEN q
       ELSE LET c == Commit(op, arg, q.found, db)
            IN IF c.status # 0 THEN c ELSE Return(op, c.found, c.db)

(************************ Spec: one request at a time **********************)

NoResp == [op |-> "none", arg |-> None, pre |-> None, status |-> 0, body |-> None]
Idle == [pc |-> "idle", op |-> "none", arg |-> None, found |-> None,
         status |-> 0, body |-> None, sid |-> 0]

\* Base.metadata.create_all on a fresh database file: three empty tables.
Init ==
    /\ users = {}
    /\ events = {}
    /\ calendar = {}
    /\ resp = NoResp
    /\ req = [w \in Workers |-> Idle]
    /\ sessions = {}
    /\ started = 0

\* One request served from get_db's SessionLocal() to its db.close().
Serve(op, arg) ==
    LET out == Handle(op, arg, DB)
    IN /\ [op |-> op, arg |-> arg] \in Requests
       /\ started < MaxServed
       /\ users' = out.db.users
       /\ events' = out.db.events
       /\ calendar' = out.db.calendar
       /\ resp' = [op |-> op, arg |-> arg, pre |-> DB,
                   status |-> out.status, body |-> out.body]
       /\ started' = started + 1
       /\ UNCHANGED <<req, sessions>>

register == \E data \in RegisterRequests : Serve("register", data)
login == \E data \in RegisterRequests : Serve("login", data)
get_events == Serve("get_events", None)
create_event == \E event \in EventInputs : Serve("create_event", [event |-> event])
update_event ==
    \E event_id \in EventIdInputs, event \in EventInputs :
        Serve("update_event", [event_id |-> event_id, event |-> event])
delete_event ==
    \E event_id \in EventIdInputs : Serve("delete_event", [event_id |-> event_id])
add_to_calendar == \E data \in CalendarItems : Serve("add_to_calendar", data)
get_calendar ==
    \E user_id \in UserIdInputs : Serve("get_calendar", [user_id |-> user_id])

Next ==
    \/ register
    \/ login
    \/ get_events
    \/ create_event
    \/ update_event
    \/ delete_event
    \/ add_to_calendar
    \/ get_calendar

Spec == Init /\ [][Next]_vars

(****************** ConcSpec: requests on worker threads *******************)

Tables == <<users, events, calendar>>

\* SessionLocal(): a new session object, distinct from every open one.
SessionLocal ==
    CHOOSE sid \in 1 .. (Cardinality(sessions) + 1) :
        \A s \in sessions : s.sid # sid

\* Mutant of Close: db.close() after the yield without try/finally, so it is
\* skipped when the handler raised.
Close_not_in_finally(w) ==
    IF req[w].status = 200 THEN {s \in sessions : s.sid # req[w].sid} ELSE sessions

\* get_db's "finally: db.close()": runs however the handler ended.
Close(w) == {s \in sessions : s.sid # req[w].sid}

\* get_db up to its yield: the request gets its session, the handler starts.
get_db_open(w) ==
    /\ req[w].pc = "idle"
    /\ started < MaxRequests
    /\ \E r \in Requests :
          req' = [req EXCEPT ![w] =
                     [pc |-> "query", op |-> r.op, arg |-> r.arg, found |-> None,
                      status |-> 0, body |-> None, sid |-> SessionLocal]]
    /\ sessions' = sessions \cup {[sid |-> SessionLocal, owner |-> w]}
    /\ started' = started + 1
    /\ UNCHANGED <<Tables, resp>>

\* The handler's SELECTs; a raise or a return ends the handler here.
run_query(w) ==
    /\ req[w].pc = "query"
    /\ LET q == Query(req[w].op, req[w].arg, DB)
       IN req' = [req EXCEPT ![w] =
                     IF q.status # 0
                     THEN [@ EXCEPT !.pc = "exit", !.status = q.status, !.body = q.body]
                     ELSE [@ EXCEPT !.pc = "commit", !.found = q.found]]
    /\ UNCHANGED <<Tables, resp, sessions, started>>

\* The handler's write with its db.commit(): one transaction of the engine.
run_commit(w) ==
    /\ req[w].pc = "commit"
    /\ LET c == Commit(req[w].op, req[w].arg, req[w].found, DB)
       IN /\ users' = c.db.users
          /\ events' = c.db.events
          /\ calendar' = c.db.calendar
          /\ req' = [req EXCEPT ![w] =
                        IF c.status # 0
                        THEN [@ EXCEPT !.pc = "exit", !.status = c.status, !.body = c.body,
                                       !.found = None]
                        ELSE [@ EXCEPT !.pc = "return", !.found = c.found]]
    /\ UNCHANGED <<resp, sessions, started>>

\* db.refresh and the return of the row.
run_return(w) ==
    /\ req[w].pc = "return"
    /\ LET t == Return(req[w].op, req[w].found, DB)
       IN req' = [req EXCEPT ![w] =
                     [@ EXCEPT !.pc = "exit", !.status = t.status, !.body = t.body,
                               !.found = None]]
    /\ UNCHANGED <<Tables, resp, sessions, started>>

\* get_db after its yield: the handler has returned or raised.
get_db_close(w) ==
    /\ req[w].pc = "exit"
    /\ sessions' = Close(w)
    /\ req' = [req EXCEPT ![w].pc = "done"]
    /\ UNCHANGED <<Tables, resp, started>>

\* The response is sent; the worker thread is free for the next request.
respond(w) ==
    /\ req[w].pc = "done"
    /\ req' = [req EXCEPT ![w] = Idle]
    /\ UNCHANGED <<Tables, resp, sessions, started>>

ConcNext ==
    \E w \in Workers :
        \/ get_db_open(w)
        \/ run_query(w)
        \/ run_commit(w)
        \/ run_return(w)
        \/ get_db_close(w)
        \/ respond(w)

\* The database file outlives the process: the server also starts on tables
\* that earlier requests filled. SeedDB is what registering alice and then
\* creating the concert leave behind.
EmptyDB == [users |-> {}, events |-> {}, calendar |-> {}]
SeedDB ==
    LET registered == Handle("register", [login |-> "alice", password |-> "pw1"],
                             EmptyDB).db
    IN Handle("create_event",
              [event |-> EventDB(Concert, NullId)], registered).db

ConcInit ==
    /\ \E db \in {EmptyDB, SeedDB} :
          /\ users = db.users
          /\ events = db.events
          /\ calendar = db.calendar
    /\ resp = NoResp
    /\ req = [w \in Workers |-> Idle]
    /\ sessions = {}
    /\ started = 0

ConcSpec == ConcInit /\ [][ConcNext]_vars

(********************************* claims **********************************)

Stored(rows, id) == \E r \in rows : r.id = id
Unchanged(pre) == DB = pre
NotFoundDetail(detail) == resp.status = 404 /\ resp.body = [detail |-> detail]

\* C1: register with a login no stored user has succeeds, adds exactly one
\* user with that login and password and returns its id and login; register
\* with a login a stored user has answers 400 "User already exists" and
\* leaves the users table (and every other table) as it was.
C1_RegisterContract ==
    resp.op = "register" =>
        IF \E u \in resp.pre.users : u.login = resp.arg.login
        THEN /\ resp.status = 400
             /\ resp.body = [detail |-> "User already exists"]
             /\ Unchanged(resp.pre)
        ELSE /\ resp.status = 200
             /\ \E u \in users \ resp.pre.users :
                   /\ users = resp.pre.users \cup {u}
                   /\ u.login = resp.arg.login
                   /\ u.password = resp.arg.password
                   /\ ~Stored(resp.pre.users, u.id)
                   /\ resp.body = [id |-> u.id, login |-> u.login]
             /\ events = resp.pre.events
             /\ calendar = resp.pre.calendar

\* The second registration of a login, with another password, was refused.
C1_Witness ==
    /\ resp.op = "register"
    /\ resp.status = 400
    /\ \E u \in users : u.login = resp.arg.login /\ u.password # resp.arg.password

\* C2: logins stay unique and a register request never ends in a server
\* fault: the loser of two interleaved registrations of one login gets 400.
C2_UniqueLoginAsConflict ==
    /\ \A u1, u2 \in users : u1.login = u2.login => u1 = u2
    /\ \A w \in Workers :
          (req[w].op = "register" /\ req[w].pc \in {"exit", "done"})
              => req[w].status \in {200, 400}

\* C3: login answers 200 with the id and login of the stored user that has
\* exactly that login and password, 401 when there is none (unknown login or
\* wrong password), and changes no table.
C3_LoginContract ==
    resp.op = "login" =>
        LET match == {u \in resp.pre.users :
                         u.login = resp.arg.login /\ u.password = resp.arg.password}
        IN /\ Unchanged(resp.pre)
           /\ (resp.status = 200) <=> (match # {})
           /\ match # {} => \E u \in match : resp.body = [id |-> u.id, login |-> u.login]
           /\ match = {} => /\ resp.status = 401
                            /\ resp.body = [detail |-> "Invalid login or password"]

\* A known login was refused because of its password.
C3_Witness ==
    /\ resp.op = "login"
    /\ resp.status = 401
    /\ \E u \in users : u.login = resp.arg.login /\ u.password # resp.arg.password

\* C4: get calendar answers with one stored Event per calendar entry of the
\* user, in entry order, and never with a missing event.
C4_CalendarListsStoredEvents ==
    resp.op = "get_calendar" =>
        LET items == All({c \in calendar : c.user_id = resp.arg.user_id})
        IN /\ resp.status = 200
           /\ Len(resp.body.items) = Len(items)
           /\ \A i \in 1 .. Len(items) :
                 /\ resp.body.items[i] \in events
                 /\ resp.body.items[i].id = items[i].event_id

\* C5: add to calendar answers 404 and changes nothing when the user or the
\* event is not stored; otherwise it adds exactly one row (user_id, event_id)
\* with a new id, also when such a row is there already.
C5_AddToCalendarContract ==
    resp.op = "add_to_calendar" =>
        IF Stored(resp.pre.users, resp.arg.user_id)
           /\ Stored(resp.pre.events, resp.arg.event_id)
        THEN /\ resp.status = 200
             /\ resp.body = [message |-> "Added to calendar"]
             /\ \E c \in calendar \ resp.pre.calendar :
                   /\ calendar = resp.pre.calendar \cup {c}
                   /\ c.user_id = resp.arg.user_id
                   /\ c.event_id = resp.arg.event_id
                   /\ ~Stored(resp.pre.calendar, c.id)
             /\ users = resp.pre.users
             /\ events = resp.pre.events
        ELSE /\ NotFoundDetail("User or Event not found")
             /\ Unchanged(resp.pre)

\* An entry was added that the user already had.
C5_Witness ==
    /\ resp.op = "add_to_calendar"
    /\ resp.status = 200
    /\ \E c \in resp.pre.calendar :
          c.user_id = resp.arg.user_id /\ c.event_id = resp.arg.event_id

\* C6: a calendar row is committed only while its user and its event are
\* stored, also when a delete of the event runs at the same time.
C6_EntryRefersToStoredRows ==
    [][\A c \in calendar' \ calendar :
          Stored(users, c.user_id) /\ Stored(events, c.event_id)]_vars

\* C7: delete event on a stored id answers 200 and removes that one event,
\* leaving the other events, the users and the calendar as they were (so a
\* second delete of the id finds nothing); on an id that is not stored it
\* answers 404 and changes nothing.
C7_DeleteEventContract ==
    resp.op = "delete_event" =>
        IF Stored(resp.pre.events, resp.arg.event_id)
        THEN /\ resp.status = 200
             /\ resp.body = [message |-> "Event deleted"]
             /\ events = {e \in resp.pre.events : e.id # resp.arg.event_id}
             /\ Cardinality(events) = Cardinality(resp.pre.events) - 1
             /\ ~Stored(events, resp.arg.event_id)
             /\ users = resp.pre.users
             /\ calendar = resp.pre.calendar
        ELSE /\ NotFoundDetail("Event not found")
             /\ Unchanged(resp.pre)

\* An event that is on a calendar was deleted while another event is stored.
C7_Witness ==
    /\ resp.op = "delete_event"
    /\ resp.status = 200
    /\ events # {}
    /\ \E c \in calendar : c.event_id = resp.arg.event_id

\* C8: update event on an id that is not stored answers 404 and changes
\* nothing; on a stored id it stores exactly the submitted name, date, time,
\* place, description and image_url under the id of the path, whatever id
\* the body gives, and leaves every other row as it was.
C8_UpdateEventContract ==
    resp.op = "update_event" =>
        IF Stored(resp.pre.events, resp.arg.event_id)
        THEN LET new == [k \in FieldNames \cup {"id"} |->
                            IF k = "id" THEN resp.arg.event_id
                            ELSE resp.arg.event[k]]
             IN /\ resp.status = 200
                /\ resp.body = new
                /\ events = {e \in resp.pre.events : e.id # resp.arg.event_id}
                                \cup {new}
                /\ Cardinality(events) = Cardinality(resp.pre.events)
                /\ users = resp.pre.users
                /\ calendar = resp.pre.calendar
        ELSE /\ NotFoundDetail("Event not found")
             /\ Unchanged(resp.pre)

\* A stored event got new field values from a body that names another id,
\* next to a second event.
C8_Witness ==
    /\ resp.op = "update_event"
    /\ resp.status = 200
    /\ resp.arg.event.id # resp.arg.event_id
    /\ resp.body \notin resp.pre.events
    /\ Cardinality(events) > 1

\* C9: create event stores the submitted fields under a generated id that is
\* at least 1 and is the id of no event stored before, whatever id the body
\* gives; list events then shows the record; and the ids that list events
\* shows are pairwise distinct in every state.
C9_CreateEventContract ==
    /\ resp.op = "create_event" =>
          /\ resp.status = 200
          /\ resp.body.id >= 1
          /\ ~Stored(resp.pre.events, resp.body.id)
          /\ \A k \in FieldNames : resp.body[k] = resp.arg.event[k]
          /\ events = resp.pre.events \cup {resp.body}
          /\ users = resp.pre.users
          /\ calendar = resp.pre.calendar
          /\ LET listed == get_events_query(DB)
             IN /\ listed.status = 200
                /\ \E i \in DOMAIN listed.body.items : listed.body.items[i] = resp.body
    /\ LET items == get_events_query(DB).body.items
       IN /\ Len(items) = Cardinality(events)
          /\ \A i, j \in DOMAIN items : items[i].id = items[j].id => i = j
    /\ resp.op = "get_events" =>
          /\ resp.status = 200
          /\ Unchanged(resp.pre)
          /\ {resp.body.items[i] : i \in DOMAIN resp.body.items} = events

\* An event was created from a body whose id is 0, next to stored events
\* and after an earlier event had been deleted.
C9_Witness ==
    /\ resp.op = "create_event"
    /\ resp.arg.event.id = 0
    /\ resp.pre.events # {}
    /\ resp.body.id > Cardinality(events)

\* C10: a request being handled has exactly one open session, its own; no
\* session is open for a request that has ended, however it ended; and no
\* session belongs to two requests.
C10_SessionPerRequest ==
    /\ \A w \in Workers :
          LET mine == {s \in sessions : s.owner = w}
          IN IF req[w].pc \in {"query", "commit", "return", "exit"}
             THEN mine = {[sid |-> req[w].sid, owner |-> w]}
             ELSE mine = {}
    /\ \A s1, s2 \in sessions : s1.sid = s2.sid => s1 = s2

\* One request has ended in a server fault and another in a client error,
\* and no session is open.
C10_Witness ==
    /\ sessions = {}
    /\ \E w1, w2 \in Workers :
          /\ req[w1].pc = "done" /\ req[w1].status = 500
          /\ req[w2].pc = "done" /\ req[w2].status \in {400, 401, 404}

====
